---- MODULE Spec2Model ----
(***************************************************************************)
(* A model of read.py: read_file(f), the sequential decoder of a tagged    *)
(* binary record stream.  Bytes are the integers 0..255, a bytes object is *)
(* a sequence of them, the file object f is the pair (src, pos).           *)
(***************************************************************************)
EXTENDS Integers, Sequences, FiniteSets, TLC

VARIABLES
    src,      \* content of the file behind f
    pos,      \* f's read cursor: number of bytes consumed so far
    closes,   \* number of f.close() calls made
    pc,       \* position in read_file: "read", one of the nine ifs, "close", "done", "error"
    ins,      \* the local ins: the bytes object read in tag position
    out,      \* the lines printed, one record per line
    err,      \* the exception that left read_file, if any
    tagPos,   \* history: cursor value right after the last read in tag position
    fired,    \* history: number of if-bodies entered since the last read in tag position
    uses,     \* history: for each byte of src, the roles it was returned in by f.read
    input     \* how src was written: the tags of its complete records, its shape

vars == <<src, pos, closes, pc, ins, out, err, tagPos, fired, uses, input>>

----------------------------------------------------------------------------
(* Bounds of the model.                                                    *)

MaxRecords == 2

----------------------------------------------------------------------------
(* The tag bytes the ifs of read_file compare ins with.                    *)

TagF == 70
TagT == 84
TagP == 80
TagL == 76
TagE == 69
TagS == 83
TagB == 66
TagC == 67
TagY == 89

FixedTags == {TagF, TagT, TagP, TagL, TagE, TagS, TagC, TagY}

Tags == FixedTags \cup {TagB}

Min(a, b) == IF a < b THEN a ELSE b

Max(a, b) == IF a > b THEN a ELSE b

----------------------------------------------------------------------------
(* struct: format strings without their '>' (big-endian, no padding), one  *)
(* format character per element.                                           *)

FieldWidth(ch) == CASE ch = "f" -> 4 [] ch = "h" -> 2 [] ch = "B" -> 1

RECURSIVE CalcSize(_)
CalcSize(fmt) == IF fmt = <<>> THEN 0 ELSE FieldWidth(Head(fmt)) + CalcSize(Tail(fmt))

Floats(n) == [i \in 1..n |-> "f"]

\* The format string each fixed-layout branch hands to struct.unpack.
Fmt(tag) ==
    CASE tag = TagF -> Floats(3)
      [] tag = TagT -> <<"B">>
      [] tag = TagP -> Floats(3)
      [] tag = TagL -> Floats(6) \o <<"h">>
      [] tag = TagE -> Floats(8) \o <<"h">>
      [] tag = TagS -> Floats(9) \o <<"h">>
      [] tag = TagC -> Floats(8) \o <<"h">>
      [] tag = TagY -> Floats(8) \o <<"h">>

\* The literal length each fixed-layout branch hands to f.read.
ReadLenShortS(tag) ==
    CASE tag = TagF -> 12
      [] tag = TagT -> 1
      [] tag = TagP -> 12
      [] tag = TagL -> 26
      [] tag = TagE -> 34
      [] tag = TagS -> 34
      [] tag = TagC -> 34
      [] tag = TagY -> 34

ReadLen(tag) ==
    CASE tag = TagF -> 12
      [] tag = TagT -> 1
      [] tag = TagP -> 12
      [] tag = TagL -> 26
      [] tag = TagE -> 34
      [] tag = TagS -> 38
      [] tag = TagC -> 34
      [] tag = TagY -> 34

\* The B branch: the header format '>ffffff', read with f.read(24).
FmtBHeader == Floats(6)

ReadLenBHeader == 24

RECURSIVE Fields(_, _)
Fields(fmt, buf) ==
    IF fmt = <<>> THEN <<>>
    ELSE LET w == FieldWidth(Head(fmt))
         IN  <<SubSeq(buf, 1, w)>> \o Fields(Tail(fmt), SubSeq(buf, w + 1, Len(buf)))

\* struct.unpack(fmt, buf): raises struct.error unless len(buf) is the size
\* of fmt, else one value per format character, each the big-endian bytes
\* of its field.
Unpack(fmt, buf) ==
    IF Len(buf) # CalcSize(fmt)
    THEN [ok |-> FALSE, vals |-> <<>>]
    ELSE [ok |-> TRUE, vals |-> Fields(fmt, buf)]

NoError == [type |-> "none"]

\* struct.error("unpack requires a buffer of N bytes")
StructError(fmt) == [type |-> "struct.error", need |-> CalcSize(fmt)]

\* TypeError("unsupported operand type(s) for -: 'bytes' and 'int'")
BytesMinusIntError == [type |-> "TypeError", left |-> "bytes", right |-> "int"]

----------------------------------------------------------------------------
(* The file object.                                                        *)

\* f.read(n) with the cursor at p: the next n bytes, fewer at end of file.
FReadAt(p, n) == SubSeq(src, p + 1, Min(p + n, Len(src)))

NewPosOffByOne(p, data) == IF Len(data) > 1 THEN p + Len(data) - 1 ELSE p + Len(data)

\* The cursor after f.read returned data.
NewPos(p, data) == p + Len(data)

\* History of a read that returned the bytes from..to in the given role.
Mark(u, from, to, role) ==
    [i \in 1..Len(u) |-> IF from < i /\ i <= to THEN Append(u[i], role) ELSE u[i]]

IsEofNever(data) == FALSE

\* `if not ins`
IsEof(data) == data = <<>>

MatchesOrElse(i, tag) == i = <<tag>> \/ (tag = TagY /\ i # <<>> /\ i[1] \notin Tags)

\* `if ins == b'X'`
Matches(i, tag) == i = <<tag>>

----------------------------------------------------------------------------
(* The wire format the sources are written in.                             *)

BCounts == {0, 1, 2, 4}

UnknownBytes == {0, 90}

\* The payload bytes written: tag letters and other bytes in turn, so that a
\* payload starts with 'F' and holds 'B' and bytes that are no tag.
PayloadPattern == <<TagF, 0, TagB, 90>>

PayloadByte(i) == PayloadPattern[((i - 1) % Len(PayloadPattern)) + 1]

\* Payload bytes of a record on the wire.
WirePayload(tag, count) ==
    IF tag = TagB THEN 1 + 24 + Max(count - 2, 0) * 12 + 26
    ELSE CASE tag \in {TagF, TagP} -> 12
           [] tag = TagT -> 1
           [] tag = TagL -> 26
           [] tag \in {TagE, TagC, TagY} -> 34
           [] tag = TagS -> 38

ItemKinds ==
    [tag : FixedTags, count : {0}] \cup [tag : {TagB}, count : BCounts]
        \cup [tag : UnknownBytes, count : {0}]

IsRecord(item) == item.tag \in Tags

\* The bytes of an item of which only the first keep payload bytes are written.
ItemBytes(item, keep) ==
    IF ~IsRecord(item) THEN <<item.tag>>
    ELSE LET n == Min(keep, WirePayload(item.tag, item.count))
         IN  <<item.tag>> \o
             [i \in 1..n |-> IF item.tag = TagB /\ i = 1 THEN item.count
                              ELSE PayloadByte(i)]

RECURSIVE Concat(_, _)
Concat(items, keepLast) ==
    IF items = <<>> THEN <<>>
    ELSE LET it == Head(items)
             keep == IF Len(items) = 1 /\ keepLast >= 0 THEN keepLast
                     ELSE WirePayload(it.tag, it.count)
         IN  ItemBytes(it, keep) \o Concat(Tail(items), keepLast)

\* Where a record is cut: right after its tag and one byte short, and for B
\* inside or at the end of each of its sub-fields.
PartialLens(tag, full) ==
    {k \in {0, full - 1} \cup (IF tag = TagB THEN {1, 24, 25, full - 27} ELSE {}) :
        0 <= k /\ k < full}

RECURSIVE TagsOf(_)
TagsOf(items) ==
    IF items = <<>> THEN <<>>
    ELSE (IF IsRecord(Head(items)) THEN <<Head(items).tag>> ELSE <<>>) \o TagsOf(Tail(items))

\* -1: the source is written whole; k: its last record keeps k payload bytes.
KeepChoices(items) ==
    {-1} \cup (IF items # <<>> /\ IsRecord(items[Len(items)])
               THEN PartialLens(items[Len(items)].tag,
                                WirePayload(items[Len(items)].tag, items[Len(items)].count))
               ELSE {})

ItemSeqs == UNION {[1..n -> ItemKinds] : n \in 0..MaxRecords}

----------------------------------------------------------------------------

Init ==
    \E items \in ItemSeqs :
      \E keepLast \in KeepChoices(items) :
        /\ src = Concat(items, keepLast)
        /\ input = [written   |-> TagsOf(IF keepLast = -1 THEN items
                                         ELSE SubSeq(items, 1, Len(items) - 1)),
                    unknowns  |-> Cardinality({i \in 1..Len(items) : ~IsRecord(items[i])}),
                    truncated |-> keepLast # -1]
        /\ pos = 0
        /\ closes = 0
        /\ pc = "read"
        /\ ins = <<>>
        /\ out = <<>>
        /\ err = NoError
        /\ tagPos = 0
        /\ fired = 0
        /\ uses = [i \in 1..Len(src) |-> <<>>]

\* ins = f.read(1); if not ins: break
ReadTag ==
    /\ pc = "read"
    /\ LET data == FReadAt(pos, 1)
       IN  /\ ins' = data
           /\ pos' = NewPos(pos, data)
           /\ tagPos' = NewPos(pos, data)
           /\ uses' = Mark(uses, pos, pos + Len(data), "tag")
           /\ pc' = IF IsEof(data) THEN "close" ELSE "F"
    /\ fired' = 0
    /\ UNCHANGED <<src, closes, out, err, input>>

\* if ins == b'X': print(f"X {struct.unpack(fmt, f.read(n))}")
Branch(tag, next) ==
    /\ \/ /\ ~Matches(ins, tag)
          /\ pc' = next
          /\ UNCHANGED <<pos, out, err, fired, uses>>
       \/ /\ Matches(ins, tag)
          /\ LET data == FReadAt(pos, ReadLen(tag))
                 r == Unpack(Fmt(tag), data)
             IN  /\ pos' = NewPos(pos, data)
                 /\ uses' = Mark(uses, pos, pos + Len(data), "payload")
                 /\ IF r.ok
                    THEN /\ out' = Append(out, [tag |-> tag, vals |-> r.vals])
                         /\ pc' = next
                         /\ err' = err
                    ELSE /\ out' = out
                         /\ pc' = "error"
                         /\ err' = StructError(Fmt(tag))
          /\ fired' = fired + 1
    /\ UNCHANGED <<src, closes, ins, tagPos, input>>

BranchF ==
    /\ pc = "F"
    /\ Branch(TagF, "T")

BranchT ==
    /\ pc = "T"
    /\ Branch(TagT, "P")

BranchP ==
    /\ pc = "P"
    /\ Branch(TagP, "L")

BranchL ==
    /\ pc = "L"
    /\ Branch(TagL, "E")

BranchE ==
    /\ pc = "E"
    /\ Branch(TagE, "S")

BranchS ==
    /\ pc = "S"
    /\ Branch(TagS, "B")

\* if ins == b'B': count = f.read(1); print(f"B{count} {unpack('>ffffff',
\* f.read(24))} [{len(f.read((count - 2) * 12))}...] {unpack(...)}").  The
\* f-string's expressions are evaluated left to right: the header is read and
\* unpacked, then count - 2 is evaluated with count a bytes object, which
\* raises TypeError before the vertex read is issued.
BranchB ==
    /\ pc = "B"
    /\ \/ /\ ~Matches(ins, TagB)
          /\ pc' = "C"
          /\ UNCHANGED <<pos, out, err, fired, uses>>
       \/ /\ Matches(ins, TagB)
          /\ LET count == FReadAt(pos, 1)
                 p1 == NewPos(pos, count)
                 header == FReadAt(p1, ReadLenBHeader)
                 p2 == NewPos(p1, header)
                 r == Unpack(FmtBHeader, header)
             IN  /\ pos' = p2
                 /\ uses' = Mark(uses, pos, pos + Len(count) + Len(header), "payload")
                 /\ err' = IF r.ok THEN BytesMinusIntError ELSE StructError(FmtBHeader)
          /\ out' = out
          /\ pc' = "error"
          /\ fired' = fired + 1
    /\ UNCHANGED <<src, closes, ins, tagPos, input>>

BranchC ==
    /\ pc = "C"
    /\ Branch(TagC, "Y")

BranchY ==
    /\ pc = "Y"
    /\ Branch(TagY, "read")

\* f.close(), after the loop
Close ==
    /\ pc = "close"
    /\ closes' = closes + 1
    /\ pc' = "done"
    /\ UNCHANGED <<src, pos, ins, out, err, tagPos, fired, uses, input>>

Next ==
    \/ ReadTag
    \/ BranchF
    \/ BranchT
    \/ BranchP
    \/ BranchL
    \/ BranchE
    \/ BranchS
    \/ BranchB
    \/ BranchC
    \/ BranchY
    \/ Close

Spec == Init /\ [][Next]_vars

\* read_file is one sequential call: it keeps running until it returns or raises.
FairSpec == Spec /\ WF_vars(Next)

----------------------------------------------------------------------------
(* Vocabulary of the properties.                                           *)

ChainPcs == {"F", "T", "P", "L", "E", "S", "B", "C", "Y"}

PcOf(tag) ==
    CASE tag = TagF -> "F" [] tag = TagT -> "T" [] tag = TagP -> "P"
      [] tag = TagL -> "L" [] tag = TagE -> "E" [] tag = TagS -> "S"
      [] tag = TagB -> "B" [] tag = TagC -> "C" [] tag = TagY -> "Y"

Ended == pc \in {"done", "error"}

OutTags == [i \in 1..Len(out) |-> out[i].tag]

UnknownIns == ins # <<>> /\ ins[1] \notin Tags

\* The count byte of the B record whose tag was just read (0 when it is missing).
CountByte == IF tagPos < Len(src) THEN src[tagPos + 1] ELSE 0

\* The source ends inside the payload of the record whose tag was just read.
ShortPayload ==
    /\ ins # <<>>
    /\ ins[1] \in Tags
    /\ Len(src) - tagPos < WirePayload(ins[1], CountByte)

----------------------------------------------------------------------------
(* C1: a fixed-layout tag met with its whole declared payload available    *)
(* (12, 1, 12, 26, 34, 38, 34, 34 bytes for F, T, P, L, E, S, C, Y) emits  *)
(* exactly one record of that tag and moves the cursor by 1 + payload      *)
(* length: the branch of the tag starts right after the tag byte, consumes *)
(* the payload and appends the record, no other branch of the chain reads  *)
(* or emits, and the next read in tag position takes the byte right after  *)
(* the payload.                                                            *)
C1_FixedTagConsumesPayload ==
    [][ /\ \A t \in FixedTags :
              (pc = PcOf(t) /\ ins = <<t>> /\ Len(src) - pos >= WirePayload(t, 0))
                  => /\ pos = tagPos
                     /\ pos' = tagPos + WirePayload(t, 0)
                     /\ pc' \notin {"error", "close", "done"}
                     /\ Len(out') = Len(out) + 1
                     /\ SubSeq(out', 1, Len(out)) = out
                     /\ out'[Len(out')].tag = t
                     /\ fired' = 1
        /\ \A t \in FixedTags :
              (pc \in ChainPcs \ {PcOf(t)} /\ ins = <<t>>)
                  => /\ pos' = pos
                     /\ out' = out
                     /\ pc' # "error"
        /\ (pc = "read" /\ ins # <<>> /\ ins[1] \in FixedTags /\ pos < Len(src))
              => /\ pos = tagPos + WirePayload(ins[1], 0)
                 /\ ins' = <<src[pos + 1]>>
                 /\ pos' = pos + 1
      ]_vars

\* An S record that follows another item was decoded: one record, 1 + 38 bytes.
C1_Witness ==
    /\ pc = "read"
    /\ ins = <<TagS>>
    /\ tagPos > 1
    /\ pos = tagPos + 38
    /\ out # <<>>
    /\ out[Len(out)].tag = TagS
    /\ fired = 1

----------------------------------------------------------------------------
(* C2: a B record with count byte c >= 2 and all its bytes present emits   *)
(* one B record with c - 2 extra vertices and consumes                     *)
(* 1 + 1 + 24 + (c - 2) * 12 + 26 bytes, without an error.                 *)
C2_BRecordDecoded ==
    [][ (/\ pc = "B"
         /\ ins = <<TagB>>
         /\ pos < Len(src)
         /\ src[pos + 1] >= 2
         /\ Len(src) - pos >= WirePayload(TagB, src[pos + 1]))
            => /\ pc' # "error"
               /\ pos' = pos + 1 + 24 + (src[pos + 1] - 2) * 12 + 26
               /\ Len(out') = Len(out) + 1
               /\ out'[Len(out')].tag = TagB
      ]_vars

----------------------------------------------------------------------------
(* C3: for a B record with count byte 0 or 1 the vertex section is read    *)
(* with length 0 and decoding goes on with the 26-byte trailer: the branch *)
(* ends without an error, 1 + 24 + 0 + 26 bytes after the tag.             *)
C3_BCountClamped ==
    [][ (/\ pc = "B"
         /\ ins = <<TagB>>
         /\ pos < Len(src)
         /\ src[pos + 1] < 2
         /\ Len(src) - pos >= 1 + 24 + 26)
            => /\ pc' # "error"
               /\ pos' = pos + 1 + 24 + 0 + 26
      ]_vars

----------------------------------------------------------------------------
(* C4: on a source that is the concatenation of N complete records of      *)
(* recognized tags, B included, the pass ends normally with exactly the N  *)
(* records, in the order written.                                          *)
C4_ConcatenationDecoded ==
    (input.unknowns = 0 /\ ~input.truncated /\ Ended)
        => (pc = "done" /\ OutTags = input.written)

----------------------------------------------------------------------------
(* C5: on a source that ends inside the payload of a recognized tag the    *)
(* pass ends in an error, with no record for the truncated payload and     *)
(* with exactly the records of the complete records before it.             *)
C5_TruncationIsError ==
    (input.truncated /\ Ended)
        => (pc = "error" /\ OutTags = input.written)

----------------------------------------------------------------------------
(* C6: when the pass has ended, on clean end of file or with an error, the *)
(* byte source has been closed exactly once.                               *)
C6_ClosedExactlyOnce ==
    Ended => closes = 1

----------------------------------------------------------------------------
(* C7: a byte in tag position that is none of F, T, P, L, E, S, B, C, Y    *)
(* emits nothing, consumes nothing after itself and does not stop the      *)
(* pass: the whole chain leaves cursor and output alone, control returns   *)
(* to the read in tag position, and that read takes the very next byte.    *)
C7_UnknownTagSkipped ==
    [][ /\ (pc \in ChainPcs /\ UnknownIns)
              => /\ pos = tagPos
                 /\ pos' = pos
                 /\ out' = out
                 /\ err' = err
                 /\ fired' = 0
                 /\ pc' \in ChainPcs \cup {"read"}
        /\ (pc = "read" /\ UnknownIns /\ pos < Len(src))
              => /\ pos = tagPos
                 /\ ins' = <<src[tagPos + 1]>>
                 /\ pos' = tagPos + 1
      ]_vars

\* An unknown first byte was skipped and the F record behind it decoded.
C7_Witness ==
    /\ src # <<>>
    /\ src[1] = 90
    /\ pc = "read"
    /\ ins = <<TagF>>
    /\ tagPos = 2
    /\ OutTags = <<TagF>>

----------------------------------------------------------------------------
(* C8: the pass ends normally exactly when a read in tag position returns  *)
(* zero bytes; on every (finite) source the pass ends; on the empty source *)
(* it ends normally with no record and no error.                           *)
C8_EndsOnCleanEof ==
    /\ [][ /\ (pc = "read" /\ pos = Len(src)) => (ins' = <<>> /\ pc' = "close")
           /\ (pc = "read" /\ pos < Len(src)) => (ins' # <<>> /\ pc' \notin {"close", "done"})
           /\ (pc' \in {"close", "done"} /\ pc \notin {"close", "done"})
                 => (pc = "read" /\ ins' = <<>>)
         ]_vars
    /\ [](pc \in {"close", "done"} => (ins = <<>> /\ tagPos = pos /\ err = NoError))
    /\ [](pc = "error" => (ins # <<>> /\ err # NoError))
    /\ <>Ended
    /\ []((src = <<>> /\ Ended) => (pc = "done" /\ out = <<>> /\ err = NoError))

\* A pass over a source with records in it has ended on a zero-byte tag read.
C8_Witness ==
    /\ pc = "done"
    /\ ins = <<>>
    /\ out # <<>>
    /\ pos = Len(src)

----------------------------------------------------------------------------
(* C9: every error for a short read inside a payload is a TruncationError  *)
(* carrying the tag being decoded and the offset at which the source       *)
(* ended, and for B the sub-field that was being read.                     *)
C9_TruncationErrorCarriesTagAndOffset ==
    (pc = "error" /\ ShortPayload)
        => /\ err.type = "TruncationError"
           /\ {"tag", "offset"} \subseteq DOMAIN err
           /\ err.tag = ins[1]
           /\ err.offset = Len(src)
           /\ (ins = <<TagB>> => "field" \in DOMAIN err)

----------------------------------------------------------------------------
(* C10: the cursor never decreases and every byte of the source is         *)
(* returned by at most one read, as a tag or as payload: the bytes read so *)
(* far are exactly those before the cursor, the byte dispatched is one     *)
(* read as a tag, no byte read as payload is dispatched, and a tag byte    *)
(* enters at most one branch.                                              *)
C10_NoByteReadTwice ==
    /\ [](/\ \A i \in 1..Len(src) :
                /\ Len(uses[i]) <= 1
                /\ (Len(uses[i]) = 1) <=> (i <= pos)
          /\ pc \in ChainPcs => (ins = <<src[tagPos]>> /\ uses[tagPos] = <<"tag">>)
          /\ fired <= 1
          /\ Len(out) <= Cardinality({i \in 1..Len(src) : uses[i] = <<"tag">>}))
    /\ [][pos' >= pos]_vars

\* The uint8 payload of T was 0x46 'F': it was read as payload, not as a tag.
C10_Witness ==
    /\ src = <<TagT, TagF>>
    /\ pc = "done"
    /\ OutTags = <<TagT>>
    /\ uses = <<(<<"tag">>), (<<"payload">>)>>

----------------------------------------------------------------------------
(* What holds of C4 and C5 on the sources the B branch does not cut short: *)
(* with no complete B record written, a concatenation of complete records  *)
(* is decoded whole and in order, and a truncated last record ends the     *)
(* pass in an error after exactly the records before it.                   *)
NoBWritten == \A i \in 1..Len(input.written) : input.written[i] # TagB

ConcatenationWithoutBDecoded ==
    (input.unknowns = 0 /\ ~input.truncated /\ NoBWritten /\ Ended)
        => (pc = "done" /\ OutTags = input.written)

TruncationWithoutBIsError ==
    (input.truncated /\ NoBWritten /\ Ended)
        => (pc = "error" /\ OutTags = input.written /\ ShortPayload)

====
